---- MODULE Spec2Model ----
(***************************************************************************)
(* Model of docker_hosts_updater.py: the managed section of the hosts file *)
(* is rewritten from the running containers, on a timer and on docker      *)
(* events, under one asyncio lock.                                         *)
(*                                                                         *)
(* Text is a sequence of tokens.  A token is one character ("\n", " ",     *)
(* ".", "/", "x") or an indivisible piece of text (a marker, an IP         *)
(* address, a name label).  The operations of the code that look inside    *)
(* text (splitlines, strip, split("."), lstrip("/"), the substring test    *)
(* "marker in contents") are computed on the tokens.                       *)
(***************************************************************************)
EXTENDS Integers, Sequences, FiniteSets, TLC

\* ------------------------------------------------------------------ text
NL == "\n"
SP == " "
NBSP == "nbsp"
DOT == "."
SLASH == "/"

BEGIN_BLOCK == "# BEGIN DOCKER CONTAINERS"
END_BLOCK == "# END DOCKER CONTAINERS"

\* str.strip() removes these at both ends (NBSP is whitespace for a Python str)
Whitespace == {SP, NL, NBSP}

RECURSIVE Flatten(_)
\* "".join(seq): the concatenation of a sequence of texts (file.writelines)
Flatten(seq) ==
    IF seq = <<>> THEN <<>> ELSE Head(seq) \o Flatten(Tail(seq))

RECURSIVE SplitFrom(_, _, _)
SplitFrom(s, i, cur) ==
    IF i > Len(s) THEN (IF cur = <<>> THEN <<>> ELSE <<cur>>)
    ELSE IF s[i] = NL THEN <<Append(cur, NL)>> \o SplitFrom(s, i + 1, <<>>)
    ELSE SplitFrom(s, i + 1, Append(cur, s[i]))

\* str.splitlines(keepends=True): every line keeps its "\n"; the last line
\* has none when the text does not end with one
splitlines(s) == SplitFrom(s, 1, <<>>)

RECURSIVE lstrip(_, _)
lstrip(s, chars) ==
    IF s # <<>> /\ Head(s) \in chars THEN lstrip(Tail(s), chars) ELSE s

RECURSIVE rstrip(_, _)
rstrip(s, chars) ==
    IF s # <<>> /\ s[Len(s)] \in chars
    THEN rstrip(SubSeq(s, 1, Len(s) - 1), chars) ELSE s

\* str.strip()
strip(s) == rstrip(lstrip(s, Whitespace), Whitespace)

\* "marker in contents": the marker text occurs somewhere in the text
Contains(contents, marker) == \E i \in 1..Len(contents) : contents[i] = marker

\* the search done with "marker in line" instead of line.strip() == marker
RECURSIVE FirstFrom_substring(_, _, _)
FirstFrom_substring(lines, marker, i) ==
    IF i > Len(lines) THEN 0
    ELSE IF Contains(lines[i], marker) THEN i
    ELSE FirstFrom_substring(lines, marker, i + 1)

RECURSIVE FirstFrom(_, _, _)
FirstFrom(lines, marker, i) ==
    IF i > Len(lines) THEN 0
    ELSE IF strip(lines[i]) = <<marker>> THEN i
    ELSE FirstFrom(lines, marker, i + 1)

\* next(i for i, line in enumerate(lines) if line.strip() == marker), 1-based;
\* 0 stands for StopIteration (no such line)
FirstLine(lines, marker) == FirstFrom(lines, marker, 1)

\* s/\xA0/ /g
RECURSIVE SedNbsp(_)
SedNbsp(s) ==
    IF s = <<>> THEN <<>>
    ELSE <<IF Head(s) = NBSP THEN SP ELSE Head(s)>> \o SedNbsp(Tail(s))


\* ------------------------------------------------- entry synthesis
VARIABLES
    HOSTS_FILE,     \* the target file: [exists |-> BOOLEAN, text |-> its content]
    same_fs,        \* TRUE when /tmp and the target file are on one filesystem
    docker,         \* what the container runtime would report now (inspect data)
    DOMAIN_BASE,    \* the global of that name
    UPDATE_LOCK,    \* [locked |-> BOOLEAN, waiters |-> tasks waiting in acquire()]
    argv,           \* command line and environment: [interval, domain, env]
    pc,             \* position of main() and of the two tasks it creates
    thread,         \* the executor's run of update_hosts_file, per caller
    temp_file,      \* the NamedTemporaryFile of each run: [exists, text]
    stdout,         \* lines of the docker events process not yet consumed
    events_proc,    \* state of the docker events process
    counts,         \* [ticks, emitted]: how often the environment has acted
    calls           \* the direct calls of the file functions made so far

vars == <<HOSTS_FILE, same_fs, docker, DOMAIN_BASE, UPDATE_LOCK, argv, pc, thread, temp_file, stdout, events_proc, counts,
          calls>>

\* name.split(".")[0]
RECURSIVE split_dot_first(_)
split_dot_first(name) ==
    IF name = <<>> \/ Head(name) = DOT THEN <<>>
    ELSE <<Head(name)>> \o split_dot_first(Tail(name))

InSeq(x, seq) == \E i \in 1..Len(seq) : seq[i] = x

\* for alias in aliases: if alias and alias not in hostnames: append
RECURSIVE add_aliases(_, _)
add_aliases(hostnames, aliases) ==
    IF aliases = <<>> THEN hostnames
    ELSE add_aliases(
            IF Head(aliases) # <<>> /\ ~InSeq(Head(aliases), hostnames)
            THEN Append(hostnames, Head(aliases)) ELSE hostnames,
            Tail(aliases))

\* the hostnames list with the hostname put before the container name
collect_hostnames_hostname_first(container_name, hostname, aliases) ==
    add_aliases(
        (IF hostname # <<>> /\ hostname # container_name
         THEN <<hostname>> ELSE <<>>)
        \o (IF container_name # <<>> THEN <<container_name>> ELSE <<>>),
        aliases)

\* the hostnames list built for one attachment
collect_hostnames(container_name, hostname, aliases) ==
    add_aliases(
        (IF container_name # <<>> THEN <<container_name>> ELSE <<>>)
        \o (IF hostname # <<>> /\ hostname # container_name
            THEN <<hostname>> ELSE <<>>),
        aliases)

\* clean_name, then clean_name.DOMAIN_BASE, for every hostname
RECURSIVE all_names(_)
all_names(hostnames) ==
    IF hostnames = <<>> THEN <<>>
    ELSE LET clean_name == split_dot_first(Head(hostnames))
         IN  <<clean_name, clean_name \o <<DOT>> \o DOMAIN_BASE>>
             \o all_names(Tail(hostnames))

\* all_names joined as it is
unique_names_keeping_repeats(names, acc) == acc \o names

\* remove duplicates while preserving order
RECURSIVE unique_names(_, _)
unique_names(names, acc) ==
    IF names = <<>> THEN acc
    ELSE unique_names(Tail(names),
            IF InSeq(Head(names), acc) THEN acc ELSE Append(acc, Head(names)))

\* " ".join(names)
RECURSIVE join(_)
join(names) ==
    IF names = <<>> THEN <<>>
    ELSE IF Len(names) = 1 THEN Head(names)
    ELSE Head(names) \o <<SP>> \o join(Tail(names))

\* f"{ip_address} {' '.join(unique_names)}"
format_entry(ip_address, hostnames) ==
    <<ip_address, SP>> \o join(unique_names(all_names(hostnames), <<>>))

\* the loop over the networks without the test on seen_ips
RECURSIVE scan_networks_without_seen_ips(_, _, _, _)
scan_networks_without_seen_ips(container_name, hostname, networks, acc) ==
    IF networks = <<>> THEN acc
    ELSE LET network_info == Head(networks)
             ip_address == network_info.IPAddress
             hostnames == collect_hostnames(container_name, hostname,
                                            network_info.Aliases)
         IN  scan_networks_without_seen_ips(container_name, hostname,
                Tail(networks),
                IF ip_address = "" \/ hostnames = <<>> THEN acc
                ELSE [host_entries |->
                        Append(acc.host_entries,
                               format_entry(ip_address, hostnames)),
                      seen_ips |-> acc.seen_ips \cup {ip_address}])

\* the loop over the networks of one container; acc is
\* [host_entries, seen_ips]
RECURSIVE scan_networks(_, _, _, _)
scan_networks(container_name, hostname, networks, acc) ==
    IF networks = <<>> THEN acc
    ELSE LET network_info == Head(networks)
             ip_address == network_info.IPAddress
             hostnames == collect_hostnames(container_name, hostname,
                                            network_info.Aliases)
             skip == ip_address = "" \/ ip_address \in acc.seen_ips
         IN  scan_networks(container_name, hostname, Tail(networks),
                IF skip \/ hostnames = <<>> THEN acc
                ELSE [host_entries |->
                        Append(acc.host_entries,
                               format_entry(ip_address, hostnames)),
                      seen_ips |-> acc.seen_ips \cup {ip_address}])

\* the loop over the inspected containers
RECURSIVE scan_containers(_, _)
scan_containers(containers, acc) ==
    IF containers = <<>> THEN acc
    ELSE LET container == Head(containers)
         IN  scan_containers(Tail(containers),
                scan_networks(lstrip(container.Name, {SLASH}),
                              container.Hostname, container.Networks, acc))

\* what get_docker_container_hosts returns for decoded inspect data
host_entries_of(containers) ==
    scan_containers(containers,
                    [host_entries |-> <<>>, seen_ips |-> {}]).host_entries

\* ------------------------------------------------- the file functions
\* the test done on the list of lines, which keep their line ends
markers_missing_in_lines(contents) ==
    \/ ~InSeq(<<BEGIN_BLOCK>>, splitlines(contents))
    \/ ~InSeq(<<END_BLOCK>>, splitlines(contents))

\* the markers are missing as far as ensure_managed_section_exists can tell
markers_missing(contents) ==
    ~Contains(contents, BEGIN_BLOCK) \/ ~Contains(contents, END_BLOCK)

\* the file opened with "w" instead of "a"
ensured_text_truncating(contents) ==
    IF markers_missing(contents)
    THEN <<NL, BEGIN_BLOCK, NL, END_BLOCK, NL>>
    ELSE contents

\* the file after ensure_managed_section_exists read `contents`
ensured_text(contents) ==
    IF markers_missing(contents)
    THEN contents \o <<NL, BEGIN_BLOCK, NL, END_BLOCK, NL>>
    ELSE contents

\* the two next(...) searches succeed
markers_found(lines) ==
    FirstLine(lines, BEGIN_BLOCK) # 0 /\ FirstLine(lines, END_BLOCK) # 0

\* [f"{entry}\n" for entry in docker_entries]
entry_lines(docker_entries) ==
    [i \in 1..Len(docker_entries) |-> Append(docker_entries[i], NL)]

\* lines[:start_idx] and lines[end_idx + 1:]: the marker lines not kept
new_lines_without_markers(lines, start_idx, end_idx, docker_entries) ==
    SubSeq(lines, 1, start_idx - 1)
    \o entry_lines(docker_entries)
    \o SubSeq(lines, end_idx + 1, Len(lines))

\* lines[: start_idx + 1] + entries + lines[end_idx:]   (indices 1-based here)
new_lines(lines, start_idx, end_idx, docker_entries) ==
    SubSeq(lines, 1, start_idx)
    \o entry_lines(docker_entries)
    \o SubSeq(lines, end_idx, Len(lines))

\* the content update_hosts_file writes to the temporary file
new_text(contents, docker_entries) ==
    LET lines == splitlines(contents)
    IN  Flatten(new_lines(lines, FirstLine(lines, BEGIN_BLOCK),
                          FirstLine(lines, END_BLOCK), docker_entries))


\* what get_docker_container_hosts returns: [] when a docker command fails,
\* times out or prints what json.loads rejects, the entries otherwise
get_docker_container_hosts(containers, fault) ==
    IF fault \in {"ls", "inspect", "json"} THEN <<>>
    ELSE host_entries_of(containers)

\* ensure_managed_section_exists as one call on `file`: [ok, file]
ensure_managed_section_exists(file, fault) ==
    IF ~file.exists \/ fault = "read" THEN [ok |-> FALSE, file |-> file]
    ELSE [ok |-> TRUE,
          file |-> [exists |-> TRUE, text |-> ensured_text(file.text)]]

\* update_hosts_file as one call on `file` with the runtime reporting
\* `containers`: [ok, file, docker_entries].  `fault` names the step that
\* fails, "none" for a run without failure; the file is replaced by rename.
update_hosts_file(file, containers, fault) ==
    LET lines == splitlines(file.text)
        docker_entries == get_docker_container_hosts(containers, fault)
        unchanged == [ok |-> FALSE, file |-> file, docker_entries |-> <<>>]
    IN  IF ~file.exists \/ fault = "read" THEN unchanged
        ELSE IF ~markers_found(lines) THEN unchanged
        ELSE IF fault \in {"tempfile", "chmod", "mv"}
        THEN [unchanged EXCEPT !.docker_entries = docker_entries]
        ELSE [ok |-> TRUE,
              file |-> [exists |-> TRUE,
                        text |-> new_text(file.text, docker_entries)],
              docker_entries |-> docker_entries]

\* fix_non_breaking_spaces as one call
fix_non_breaking_spaces(file, fault) ==
    IF ~file.exists \/ fault = "sed" THEN [ok |-> FALSE, file |-> file]
    ELSE [ok |-> TRUE, file |-> [exists |-> TRUE, text |-> SedNbsp(file.text)]]

\* ------------------------------------------------- inputs
MaxLines == 3
MaxCalls == 2

web == [Id |-> "c1", Name |-> <<SLASH, "web">>, Hostname |-> <<"web">>,
        Networks |-> <<[IPAddress |-> "10.0.0.5",
                        Aliases |-> << <<"web">>, <<"www", DOT, "lan">> >>]>>]
db == [Id |-> "c2", Name |-> <<SLASH, "db">>, Hostname |-> <<"dbhost">>,
       Networks |-> <<[IPAddress |-> "10.0.0.5", Aliases |-> <<>>],
                      [IPAddress |-> "", Aliases |-> <<>>],
                      [IPAddress |-> "10.0.0.6", Aliases |-> << <<"db">> >>]>>]

\* the snapshots the container runtime moves between
Inventories == {<<>>, <<web>>, <<web, db>>}

DefaultDomain == <<"base", DOT, "domain">>

\* the texts a line of the initial file is drawn from: the two markers, a
\* marker with blanks around it, a line that only contains a marker, an
\* ordinary line
LineTexts == {<<BEGIN_BLOCK>>, <<END_BLOCK>>, <<SP, END_BLOCK, SP>>,
              <<"x", BEGIN_BLOCK>>, <<"x">>}

\* a file of the given lines; the last line has no "\n" unless `terminated`
text_of(texts, terminated) ==
    LET n == Len(texts)
    IN  Flatten([i \in 1..n |->
            IF i < n \/ terminated THEN Append(texts[i], NL) ELSE texts[i]])

FilesUpTo(n) ==
    {text_of(texts, t) :
        texts \in UNION {[1..k -> LineTexts] : k \in 0..n}, t \in BOOLEAN}

Callers == {"main", "ticker", "watcher"}
Tasks == {"ticker", "watcher"}

NoFile == [exists |-> FALSE, text |-> <<>>]

IdleThread ==
    [pc |-> "idle", lines |-> <<>>, start_idx |-> 0, end_idx |-> 0,
     container_ids |-> <<>>, docker_entries |-> <<>>, copied |-> 0,
     result |-> FALSE, before |-> NoFile, failed |-> "none"]

\* the file of the specification's example: content before the section, a
\* body and content after the section
ExampleFile ==
    text_of(<< <<"x">>, <<BEGIN_BLOCK>>, <<"10.0.0.9", SP, "old">>,
               <<END_BLOCK>>, <<"x">> >>, TRUE)

\* ------------------------------------------------- the file functions called
\* one after the other (no event loop): the state main() has not touched
InitFile ==
    /\ HOSTS_FILE \in {[exists |-> TRUE, text |-> t] :
                          t \in FilesUpTo(MaxLines) \cup {ExampleFile}}
                      \cup {NoFile}
    /\ same_fs = TRUE
    /\ docker = <<>>
    /\ DOMAIN_BASE = DefaultDomain
    /\ UPDATE_LOCK = [locked |-> FALSE, waiters |-> <<>>]
    /\ argv = [interval |-> <<>>, domain |-> <<>>, env |-> <<>>]
    /\ pc = [c \in Callers |-> IF c = "main" THEN "direct" ELSE "none"]
    /\ thread = [c \in Callers |-> IdleThread]
    /\ temp_file = [c \in Callers |-> NoFile]
    /\ stdout = <<>>
    /\ events_proc = "none"
    /\ counts = [ticks |-> 0, emitted |-> 0]
    /\ calls = <<>>

ProcessVars == <<same_fs, DOMAIN_BASE, UPDATE_LOCK, argv, pc, thread, temp_file, stdout, events_proc, counts>>

Faults == {"none", "read", "ls", "inspect", "json", "tempfile", "chmod", "mv"}

\* ensure_managed_section_exists()
CallEnsure ==
    /\ pc["main"] = "direct"
    /\ Len(calls) < MaxCalls
    /\ \E fault \in {"none", "read"} :
        \E r \in {ensure_managed_section_exists(HOSTS_FILE, fault)} :
            /\ HOSTS_FILE' = r.file
            /\ calls' = Append(calls,
                    [op |-> "ensure", ok |-> r.ok, before |-> HOSTS_FILE,
                     docker_entries |-> <<>>])
    /\ UNCHANGED <<docker, ProcessVars>>

\* update_hosts_file(), the runtime reporting `containers` when it is asked
CallUpdate ==
    /\ pc["main"] = "direct"
    /\ Len(calls) < MaxCalls
    /\ \E fault \in Faults :
        \E containers \in (IF fault = "none" THEN Inventories ELSE {docker}) :
            \E r \in {update_hosts_file(HOSTS_FILE, containers, fault)} :
                /\ docker' = containers
                /\ HOSTS_FILE' = r.file
                /\ calls' = Append(calls,
                        [op |-> "update", ok |-> r.ok, before |-> HOSTS_FILE,
                         docker_entries |-> r.docker_entries])
    /\ UNCHANGED ProcessVars

NextFile == CallEnsure \/ CallUpdate

SpecFile == InitFile /\ [][NextFile]_vars

\* ------------------------------------------------- passes on one inventory
\* ensure_managed_section_exists once, as main() calls it, then passes of
\* update_hosts_file while the runtime keeps reporting the same containers
MaxPasses == 2

InitPasses ==
    /\ HOSTS_FILE \in {[exists |-> TRUE, text |-> t] :
                          t \in FilesUpTo(MaxLines) \cup {ExampleFile}}
    /\ same_fs = TRUE
    /\ docker \in Inventories
    /\ DOMAIN_BASE = DefaultDomain
    /\ UPDATE_LOCK = [locked |-> FALSE, waiters |-> <<>>]
    /\ argv = [interval |-> <<>>, domain |-> <<>>, env |-> <<>>]
    /\ pc = [c \in Callers |-> IF c = "main" THEN "passes" ELSE "none"]
    /\ thread = [c \in Callers |-> IdleThread]
    /\ temp_file = [c \in Callers |-> NoFile]
    /\ stdout = <<>>
    /\ events_proc = "none"
    /\ counts = [ticks |-> 0, emitted |-> 0]
    /\ calls = <<>>

\* ensure_managed_section_exists(), the first call
PassEnsure ==
    /\ pc["main"] = "passes"
    /\ calls = <<>>
    /\ \E fault \in {"none", "read"} :
        \E r \in {ensure_managed_section_exists(HOSTS_FILE, fault)} :
            /\ HOSTS_FILE' = r.file
            /\ calls' = Append(calls,
                    [op |-> "ensure", ok |-> r.ok, before |-> HOSTS_FILE,
                     docker_entries |-> <<>>])
    /\ UNCHANGED <<docker, ProcessVars>>

\* update_hosts_file(), once ensure_managed_section_exists returned True
PassUpdate ==
    /\ pc["main"] = "passes"
    /\ calls # <<>>
    /\ calls[1].ok
    /\ Len(calls) < 1 + MaxPasses
    /\ \E fault \in Faults :
        \E r \in {update_hosts_file(HOSTS_FILE, docker, fault)} :
            /\ HOSTS_FILE' = r.file
            /\ calls' = Append(calls,
                    [op |-> "update", ok |-> r.ok, before |-> HOSTS_FILE,
                     docker_entries |-> r.docker_entries])
    /\ UNCHANGED <<docker, ProcessVars>>

NextPasses == PassEnsure \/ PassUpdate

SpecPasses == InitPasses /\ [][NextPasses]_vars


\* ------------------------------------------------- parse_time_interval
Digits == <<"0", "1", "2", "3", "4", "5", "6", "7", "8", "9">>

DigitValue(ch) == (CHOOSE i \in 1..Len(Digits) : Digits[i] = ch) - 1

RECURSIVE digits_value(_, _)
digits_value(s, acc) ==
    IF s = <<>> THEN acc
    ELSE digits_value(Tail(s), acc * 10 + DigitValue(Head(s)))

\* int(text): blanks around the number and a sign are accepted;
\* ok = FALSE stands for ValueError
int_of(text) ==
    LET t == strip(text)
        signed == t # <<>> /\ Head(t) \in {"+", "-"}
        body == IF signed THEN Tail(t) ELSE t
    IN  IF body = <<>> \/ \E j \in 1..Len(body) : ~InSeq(body[j], Digits)
        THEN [ok |-> FALSE, value |-> 0]
        ELSE [ok |-> TRUE,
              value |-> IF signed /\ Head(t) = "-"
                        THEN 0 - digits_value(body, 0)
                        ELSE digits_value(body, 0)]

units == [s |-> 1, m |-> 60, h |-> 3600, d |-> 86400]

\* str.lower() on the letters that matter
lower(ch) ==
    CASE ch = "S" -> "s" [] ch = "M" -> "m" [] ch = "H" -> "h"
      [] ch = "D" -> "d" [] OTHER -> ch

\* the test "value <= 0" written "value < 0"
parse_time_interval_accepting_zero(interval_str) ==
    LET invalid == [ok |-> FALSE, seconds |-> 0]
        unit == lower(interval_str[Len(interval_str)])
        value == int_of(SubSeq(interval_str, 1, Len(interval_str) - 1))
    IN  IF Len(interval_str) < 2 THEN invalid
        ELSE IF unit \notin DOMAIN units THEN invalid
        ELSE IF ~value.ok \/ value.value < 0 THEN invalid
        ELSE [ok |-> TRUE, seconds |-> value.value * units[unit]]

\* [ok, seconds]; ok = FALSE stands for ValueError
parse_time_interval(interval_str) ==
    LET invalid == [ok |-> FALSE, seconds |-> 0]
        unit == lower(interval_str[Len(interval_str)])
        value == int_of(SubSeq(interval_str, 1, Len(interval_str) - 1))
    IN  IF Len(interval_str) < 2 THEN invalid
        ELSE IF unit \notin DOMAIN units THEN invalid
        ELSE IF ~value.ok \/ value.value <= 0 THEN invalid
        ELSE [ok |-> TRUE, seconds |-> value.value * units[unit]]

\* ------------------------------------------------- the synthesizer called
\* on decoded inspect data (no event loop)
MaxContainers == 2

ContainerNames == {<<>>, <<SLASH, "web">>}
ConfigHostnames == {<<>>, <<"web">>, <<"db", DOT, "lan">>}

\* the NetworkSettings.Networks of a container, in the order of the JSON
NetworkLists ==
    {<<>>,
     <<[IPAddress |-> "10.0.0.5", Aliases |-> <<>>]>>,
     <<[IPAddress |-> "10.0.0.5",
        Aliases |-> << <<"web">>, <<"www", DOT, "lan">> >>],
       [IPAddress |-> "10.0.0.5", Aliases |-> << <<"db">> >>]>>,
     <<[IPAddress |-> "", Aliases |-> << <<"db">> >>],
       [IPAddress |-> "10.0.0.6",
        Aliases |-> << <<>>, <<"db">>, <<"db", DOT, "x">> >>]>>,
     <<[IPAddress |-> "10.0.0.6", Aliases |-> <<>>],
       [IPAddress |-> "10.0.0.5", Aliases |-> << <<"www">> >>]>>}

test_nginx ==
    [Id |-> "c0", Name |-> <<SLASH, "test-nginx">>,
     Hostname |-> <<"test-nginx">>,
     Networks |-> <<[IPAddress |-> "10.0.0.7", Aliases |-> <<>>]>>]

\* the elements of the array docker inspect prints
InspectedContainers ==
    {[Id |-> "c", Name |-> n, Hostname |-> h, Networks |-> nets] :
        n \in ContainerNames, h \in ConfigHostnames, nets \in NetworkLists}
    \cup {test_nginx}

InitSynth ==
    /\ HOSTS_FILE = NoFile
    /\ same_fs = TRUE
    /\ docker \in UNION {[1..k -> InspectedContainers] : k \in 0..MaxContainers}
    /\ DOMAIN_BASE \in {DefaultDomain, <<"lan">>}
    /\ UPDATE_LOCK = [locked |-> FALSE, waiters |-> <<>>]
    /\ argv = [interval |-> <<>>, domain |-> <<>>, env |-> <<>>]
    /\ pc = [c \in Callers |-> IF c = "main" THEN "direct" ELSE "none"]
    /\ thread = [c \in Callers |-> IdleThread]
    /\ temp_file = [c \in Callers |-> NoFile]
    /\ stdout = <<>>
    /\ events_proc = "none"
    /\ counts = [ticks |-> 0, emitted |-> 0]
    /\ calls = <<>>

\* get_docker_container_hosts()
CallSynth ==
    /\ pc["main"] = "direct"
    /\ calls = <<>>
    /\ \E fault \in {"none", "ls", "inspect", "json"} :
        calls' = <<[op |-> "hosts", ok |-> fault = "none",
                    docker_entries |->
                        get_docker_container_hosts(docker, fault)]>>
    /\ UNCHANGED <<HOSTS_FILE, docker, ProcessVars>>

SpecSynth == InitSynth /\ [][CallSynth]_vars

\* ------------------------------------------------- parse_time_interval
\* called on the value of --interval
MaxIntervalLen == 3

IntervalChars == {"0", "1", "3", "5", "-", "+", SP, "a", "b", "c", "x", "s",
                  "m", "h", "d", "S"}

InitParse ==
    /\ HOSTS_FILE = NoFile
    /\ same_fs = TRUE
    /\ docker = <<>>
    /\ DOMAIN_BASE = DefaultDomain
    /\ UPDATE_LOCK = [locked |-> FALSE, waiters |-> <<>>]
    /\ \E text \in UNION {[1..k -> IntervalChars] : k \in 0..MaxIntervalLen} :
        argv = [interval |-> text, domain |-> <<>>, env |-> <<>>]
    /\ pc = [c \in Callers |-> IF c = "main" THEN "direct" ELSE "none"]
    /\ thread = [c \in Callers |-> IdleThread]
    /\ temp_file = [c \in Callers |-> NoFile]
    /\ stdout = <<>>
    /\ events_proc = "none"
    /\ counts = [ticks |-> 0, emitted |-> 0]
    /\ calls = <<>>

\* parse_time_interval(args.interval); ok = FALSE stands for ValueError
CallParse ==
    /\ pc["main"] = "direct"
    /\ calls = <<>>
    /\ \E r \in {parse_time_interval(argv.interval)} :
        calls' = <<[op |-> "parse", ok |-> r.ok, seconds |-> r.seconds]>>
    /\ UNCHANGED <<HOSTS_FILE, docker, ProcessVars>>

SpecParse == InitParse /\ [][CallParse]_vars

\* ------------------------------------------------- the process
MaxTicks == 1
MaxEvents == 2

\* the command lines and environments the process is started with
Argvs ==
    {[interval |-> <<"3", "0", "s">>, domain |-> <<>>, env |-> <<>>],
     [interval |-> <<"0", "s">>, domain |-> <<SP, "lan", SP>>, env |-> <<>>],
     [interval |-> <<"5", "x">>, domain |-> <<>>, env |-> <<"lan">>],
     [interval |-> <<>>, domain |-> <<>>, env |-> <<>>]}

NoMarkersFile == <<"x", NL>>
BeginOnlyFile == <<BEGIN_BLOCK, NL>>
EndFirstFile == <<END_BLOCK, NL, BEGIN_BLOCK>>
NearMarkersFile == <<"x", BEGIN_BLOCK, NL, NBSP, END_BLOCK, NL, "x">>

\* what the process is started on: the target file, whether /tmp is on the
\* target's filesystem, and the running containers
InitConfigs ==
    {[file |-> [exists |-> TRUE, text |-> ExampleFile], same_fs |-> fs,
      docker |-> <<web>>] : fs \in BOOLEAN}
    \cup {[file |-> [exists |-> TRUE, text |-> ExampleFile], same_fs |-> TRUE,
           docker |-> <<>>],
          [file |-> [exists |-> TRUE, text |-> NoMarkersFile],
           same_fs |-> TRUE, docker |-> <<web, db>>],
          [file |-> [exists |-> TRUE, text |-> BeginOnlyFile],
           same_fs |-> TRUE, docker |-> <<web>>],
          [file |-> [exists |-> TRUE, text |-> EndFirstFile],
           same_fs |-> TRUE, docker |-> <<web>>],
          [file |-> [exists |-> TRUE, text |-> NearMarkersFile],
           same_fs |-> FALSE, docker |-> <<web>>],
          [file |-> NoFile, same_fs |-> TRUE, docker |-> <<web>>]}

Init ==
    /\ \E cfg \in InitConfigs :
        /\ HOSTS_FILE = cfg.file
        /\ same_fs = cfg.same_fs
        /\ docker = cfg.docker
    /\ DOMAIN_BASE = DefaultDomain
    /\ UPDATE_LOCK = [locked |-> FALSE, waiters |-> <<>>]
    /\ argv \in Argvs
    /\ pc = [c \in Callers |-> IF c = "main" THEN "start" ELSE "none"]
    /\ thread = [c \in Callers |-> IdleThread]
    /\ temp_file = [c \in Callers |-> NoFile]
    /\ stdout = <<>>
    /\ events_proc = "none"
    /\ counts = [ticks |-> 0, emitted |-> 0]
    /\ calls = <<>>

\* the process exists and has not ended
Alive == pc["main"] \notin {"direct", "exit0", "exit1", "killed"}

\* ---- update_hosts_file in a thread of the executor, one blocking call a step
Finish(c, result, failed) ==
    [thread[c] EXCEPT !.pc = "done", !.result = result, !.failed = failed]

\* temp_path is bound: the except clause unlinks the temporary file
Cleanup(c) == temp_file' = [temp_file EXCEPT ![c] = NoFile]

\* hosts_path.read_text().splitlines(keepends=True) and the marker search
ThreadRead(c) ==
    /\ thread[c].pc = "read"
    /\ \E fault \in {"none", "read"} :
        LET lines == splitlines(HOSTS_FILE.text)
        IN  thread' = [thread EXCEPT ![c] =
                IF ~HOSTS_FILE.exists \/ fault = "read"
                THEN Finish(c, FALSE, "read")
                ELSE IF ~markers_found(lines)
                THEN Finish(c, FALSE, "markers")
                ELSE [@ EXCEPT !.pc = "ls", !.lines = lines,
                               !.start_idx = FirstLine(lines, BEGIN_BLOCK),
                               !.end_idx = FirstLine(lines, END_BLOCK)]]
    /\ UNCHANGED <<HOSTS_FILE, same_fs, docker, DOMAIN_BASE, UPDATE_LOCK, argv,
                   pc, temp_file, stdout, events_proc, counts, calls>>

ContainerIds(containers) == [i \in 1..Len(containers) |-> containers[i].Id]

\* docker container ls -q
ThreadLs(c) ==
    /\ thread[c].pc = "ls"
    /\ \E fault \in {"none", "ls"} :
        thread' = [thread EXCEPT ![c] =
            IF fault = "ls"
            THEN [@ EXCEPT !.pc = "tempfile", !.failed = "ls",
                           !.docker_entries =
                               get_docker_container_hosts(docker, fault)]
            ELSE IF docker = <<>>
            THEN [@ EXCEPT !.pc = "tempfile", !.docker_entries = <<>>]
            ELSE [@ EXCEPT !.pc = "inspect",
                           !.container_ids = ContainerIds(docker)]]
    /\ UNCHANGED <<HOSTS_FILE, same_fs, docker, DOMAIN_BASE, UPDATE_LOCK, argv,
                   pc, temp_file, stdout, events_proc, counts, calls>>

\* the inspect data of the listed containers, in the order listed
RECURSIVE Inspected(_, _)
Inspected(container_ids, containers) ==
    IF container_ids = <<>> THEN <<>>
    ELSE <<CHOOSE x \in {containers[i] : i \in 1..Len(containers)} :
                x.Id = Head(container_ids)>>
         \o Inspected(Tail(container_ids), containers)

\* docker container inspect <ids>, json.loads and the loops; the command
\* exits non-zero when a listed container is gone
ThreadInspect(c) ==
    /\ thread[c].pc = "inspect"
    /\ \E fault \in {"none", "inspect", "json"} :
        LET ids == thread[c].container_ids
            gone == \E i \in 1..Len(ids) : ~InSeq(ids[i], ContainerIds(docker))
            failed == IF fault = "none" /\ gone THEN "inspect" ELSE fault
        IN  thread' = [thread EXCEPT ![c] =
                [@ EXCEPT !.pc = "tempfile",
                          !.container_ids = <<>>,
                          !.failed = failed,
                          !.docker_entries =
                              IF failed # "none"
                              THEN get_docker_container_hosts(<<>>, failed)
                              ELSE get_docker_container_hosts(
                                      Inspected(ids, docker), failed)]]
    /\ UNCHANGED <<HOSTS_FILE, same_fs, docker, DOMAIN_BASE, UPDATE_LOCK, argv,
                   pc, temp_file, stdout, events_proc, counts, calls>>

\* what the run in thread c writes
NewText(c) ==
    Flatten(new_lines(thread[c].lines, thread[c].start_idx,
                      thread[c].end_idx, thread[c].docker_entries))

\* NamedTemporaryFile(dir="/tmp") with writelines, then chmod 644: when the
\* first fails temp_path is not bound and the file stays, when the second
\* fails the except clause unlinks the file
ThreadTempfile(c) ==
    /\ thread[c].pc = "tempfile"
    /\ \E fault \in {"none", "tempfile", "chmod"} :
        /\ thread' = [thread EXCEPT ![c] =
                IF fault = "none" THEN [@ EXCEPT !.pc = "mv"]
                ELSE Finish(c, FALSE, fault)]
        /\ temp_file' = [temp_file EXCEPT ![c] =
                CASE fault = "none" -> [exists |-> TRUE, text |-> NewText(c)]
                  [] fault = "tempfile" -> [exists |-> TRUE, text |-> <<>>]
                  [] fault = "chmod" -> NoFile]
    /\ UNCHANGED <<HOSTS_FILE, same_fs, docker, DOMAIN_BASE, UPDATE_LOCK, argv,
                   pc, stdout, events_proc, counts, calls>>

\* mv temp_path HOSTS_FILE: rename(2) on one filesystem; across filesystems
\* mv removes the target and then copies
ThreadMv(c) ==
    /\ thread[c].pc = "mv"
    /\ \E fault \in {"none", "mv"} :
        IF fault = "mv"
        THEN /\ thread' = [thread EXCEPT ![c] = Finish(c, FALSE, "mv")]
             /\ Cleanup(c)
             /\ UNCHANGED HOSTS_FILE
        ELSE IF same_fs
        THEN /\ thread' = [thread EXCEPT ![c] = Finish(c, TRUE, @.failed)]
             /\ HOSTS_FILE' = temp_file[c]
             /\ Cleanup(c)
        ELSE /\ thread' = [thread EXCEPT ![c].pc = "mv_copy"]
             /\ HOSTS_FILE' = NoFile
             /\ UNCHANGED temp_file
    /\ UNCHANGED <<same_fs, docker, DOMAIN_BASE, UPDATE_LOCK, argv, pc,
                   stdout, events_proc, counts, calls>>

\* how far the copy has got after n of its two writes
CopyUpTo(source, n) ==
    IF n >= 2 THEN Len(source) ELSE (Len(source) + 1) \div 2

\* the copy of a mv across filesystems, in two writes; it ends by removing
\* the source
ThreadMvCopy(c) ==
    /\ thread[c].pc = "mv_copy"
    /\ \E fault \in {"none", "mv"} :
        LET source == splitlines(temp_file[c].text)
            n == thread[c].copied + 1
        IN  IF fault = "mv"
            THEN /\ thread' = [thread EXCEPT ![c] = Finish(c, FALSE, "mv")]
                 /\ Cleanup(c)
                 /\ UNCHANGED HOSTS_FILE
            ELSE /\ HOSTS_FILE' =
                        [exists |-> TRUE,
                         text |-> Flatten(SubSeq(source, 1, CopyUpTo(source, n)))]
                 /\ IF n < 2
                    THEN /\ thread' = [thread EXCEPT ![c].copied = n]
                         /\ UNCHANGED temp_file
                    ELSE /\ thread' = [thread EXCEPT ![c] =
                                            Finish(c, TRUE, @.failed)]
                         /\ Cleanup(c)
    /\ UNCHANGED <<same_fs, docker, DOMAIN_BASE, UPDATE_LOCK, argv, pc,
                   stdout, events_proc, counts, calls>>

\* ---- update_hosts_file_async
\* Lock.acquire returns at once
lock_always_free(lock) == TRUE

\* Lock.acquire returns at once when the lock is not held and nobody waits
lock_is_free(lock) == ~lock.locked /\ lock.waiters = <<>>

\* the run update_hosts_file_async hands to the executor
StartThread == [IdleThread EXCEPT !.pc = "read", !.before = HOSTS_FILE]

\* caller c enters "async with UPDATE_LOCK": it runs update_hosts_file in
\* the executor, or waits in acquire()
Request(c) ==
    IF lock_is_free(UPDATE_LOCK)
    THEN /\ UPDATE_LOCK' = [UPDATE_LOCK EXCEPT !.locked = TRUE]
         /\ thread' = [thread EXCEPT ![c] = StartThread]
         /\ temp_file' = [temp_file EXCEPT ![c] = NoFile]
         /\ pc' = [pc EXCEPT ![c] = "executing"]
    ELSE /\ UPDATE_LOCK' = [UPDATE_LOCK EXCEPT !.waiters = Append(@, c)]
         /\ pc' = [pc EXCEPT ![c] = "lockwait"]
         /\ UNCHANGED <<thread, temp_file>>

\* release() has woken the first waiter: it takes the lock and runs
Granted(c) ==
    /\ pc[c] = "lockwait"
    /\ ~UPDATE_LOCK.locked
    /\ Head(UPDATE_LOCK.waiters) = c
    /\ UPDATE_LOCK' = [locked |-> TRUE, waiters |-> Tail(UPDATE_LOCK.waiters)]
    /\ thread' = [thread EXCEPT ![c] = StartThread]
    /\ temp_file' = [temp_file EXCEPT ![c] = NoFile]
    /\ pc' = [pc EXCEPT ![c] = "executing"]
    /\ UNCHANGED <<HOSTS_FILE, same_fs, docker, DOMAIN_BASE, argv, stdout,
                   events_proc, counts, calls>>

\* a caller that leaves its loop when update_hosts_file_async returns False
AfterUpdate_leaving_on_failure(c) ==
    IF thread[c].result
    THEN (CASE c = "main" -> "spawn" [] c = "ticker" -> "sleep"
            [] c = "watcher" -> "reading")
    ELSE IF c = "main" THEN "spawn" ELSE "finished"

\* where a caller goes on after update_hosts_file_async has returned
AfterUpdate(c) ==
    CASE c = "main" -> "spawn" [] c = "ticker" -> "sleep"
      [] c = "watcher" -> "reading"

\* the executor's future is done: the lock is released and the caller goes on
Complete(c) ==
    /\ pc[c] = "executing"
    /\ thread[c].pc = "done"
    /\ UPDATE_LOCK' = [UPDATE_LOCK EXCEPT !.locked = FALSE]
    /\ thread' = [thread EXCEPT ![c] = IdleThread]
    /\ pc' = [pc EXCEPT ![c] = AfterUpdate(c)]
    /\ UNCHANGED <<HOSTS_FILE, same_fs, docker, DOMAIN_BASE, argv, temp_file,
                   stdout, events_proc, counts, calls>>

\* ---- main
\* the domain base is resolved and the interval parsed
MainStart ==
    /\ pc["main"] = "start"
    /\ DOMAIN_BASE' = IF argv.domain # <<>> THEN strip(argv.domain)
                      ELSE IF argv.env # <<>> THEN strip(argv.env)
                      ELSE DefaultDomain
    /\ pc' = [pc EXCEPT !["main"] =
                IF parse_time_interval(argv.interval).ok
                THEN "check_docker" ELSE "exit1"]
    /\ UNCHANGED <<HOSTS_FILE, same_fs, docker, UPDATE_LOCK, argv, thread,
                   temp_file, stdout, events_proc, counts, calls>>

\* check_docker_available
MainCheckDocker ==
    /\ pc["main"] = "check_docker"
    /\ \E available \in BOOLEAN :
        pc' = [pc EXCEPT !["main"] = IF available THEN "fix" ELSE "exit1"]
    /\ UNCHANGED <<HOSTS_FILE, same_fs, docker, DOMAIN_BASE, UPDATE_LOCK, argv,
                   thread, temp_file, stdout, events_proc, counts, calls>>

\* fix_non_breaking_spaces(); its result is not looked at
MainFix ==
    /\ pc["main"] = "fix"
    /\ \E fault \in {"none", "sed"} :
        HOSTS_FILE' = fix_non_breaking_spaces(HOSTS_FILE, fault).file
    /\ pc' = [pc EXCEPT !["main"] = "ensure"]
    /\ UNCHANGED <<same_fs, docker, DOMAIN_BASE, UPDATE_LOCK, argv, thread,
                   temp_file, stdout, events_proc, counts, calls>>

\* ensure_managed_section_exists(), exit 1 when it returns False
MainEnsure ==
    /\ pc["main"] = "ensure"
    /\ \E fault \in {"none", "read"} :
        \E r \in {ensure_managed_section_exists(HOSTS_FILE, fault)} :
            /\ HOSTS_FILE' = r.file
            /\ pc' = [pc EXCEPT !["main"] = IF r.ok THEN "initial" ELSE "exit1"]
    /\ UNCHANGED <<same_fs, docker, DOMAIN_BASE, UPDATE_LOCK, argv, thread,
                   temp_file, stdout, events_proc, counts, calls>>

\* await update_hosts_file_async(), the initial update
MainInitialUpdate ==
    /\ pc["main"] = "initial"
    /\ Request("main")
    /\ UNCHANGED <<HOSTS_FILE, same_fs, docker, DOMAIN_BASE, argv, stdout,
                   events_proc, counts, calls>>

\* the two tasks created before the initial update
MainSpawn_before_initial_update ==
    /\ pc["main"] = "initial"
    /\ pc' = [main |-> "gather", ticker |-> "sleep", watcher |-> "spawn"]
    /\ UNCHANGED <<HOSTS_FILE, same_fs, docker, DOMAIN_BASE, UPDATE_LOCK, argv,
                   thread, temp_file, stdout, events_proc, counts, calls>>

\* the two tasks are created, the signal handlers installed, gather awaited
MainSpawn ==
    /\ pc["main"] = "spawn"
    /\ pc' = [main |-> "gather", ticker |-> "sleep", watcher |-> "spawn"]
    /\ UNCHANGED <<HOSTS_FILE, same_fs, docker, DOMAIN_BASE, UPDATE_LOCK, argv,
                   thread, temp_file, stdout, events_proc, counts, calls>>

Ended(t) == pc[t] \in {"finished", "cancelled", "crashed"}

Remove(seq, x) == SelectSeq(seq, LAMBDA y : y # x)

\* Task.cancel() on the tasks of `ts`: CancelledError is raised at the await
\* each is in.  periodic_update breaks; monitor_docker_events terminates the
\* events process and waits for it, fails on the unbound name `process`
\* when the process was not yet created, and ends at once when cancelled
\* during that wait.
CancelledPc(t) ==
    IF Ended(t) THEN pc[t]
    ELSE IF t = "ticker" \/ pc[t] = "terminating" THEN "cancelled"
    ELSE IF pc[t] = "spawn" THEN "crashed"
    ELSE "terminating"

\* acquire() gives up its place in the queue; "async with" releases the
\* lock, while the thread of the executor runs on
CancelledLock(ts) ==
    [locked |-> UPDATE_LOCK.locked /\ ~\E t \in ts : pc[t] = "executing",
     waiters |-> SelectSeq(UPDATE_LOCK.waiters, LAMBDA w : w \notin ts)]

\* SIGTERM or SIGINT: signal_handler cancels both tasks
Signal ==
    /\ pc["main"] = "gather"
    /\ \E t \in Tasks : ~Ended(t) /\ pc[t] # "terminating"
    /\ pc' = [c \in Callers |-> IF c \in Tasks THEN CancelledPc(c) ELSE pc[c]]
    /\ UPDATE_LOCK' = CancelledLock(Tasks)
    /\ events_proc' = IF events_proc = "running" THEN "terminating"
                      ELSE events_proc
    /\ UNCHANGED <<HOSTS_FILE, same_fs, docker, DOMAIN_BASE, argv, thread,
                   temp_file, stdout, counts, calls>>

\* wait_for(process.wait(), timeout=5) returns, or times out and the
\* process is killed
WatcherTerminated ==
    /\ pc["watcher"] = "terminating"
    /\ pc' = [pc EXCEPT !["watcher"] = "cancelled"]
    /\ events_proc' = "exited"
    /\ UNCHANGED <<HOSTS_FILE, same_fs, docker, DOMAIN_BASE, UPDATE_LOCK, argv,
                   thread, temp_file, stdout, counts, calls>>

\* gather taken to return as soon as one task has ended
MainGather_at_first_end ==
    /\ pc["main"] = "gather"
    /\ \E t \in Tasks : pc[t] \in {"cancelled", "crashed"}
    /\ pc' = [pc EXCEPT !["main"] =
                IF pc["watcher"] = "crashed" THEN "failing" ELSE "shutdown"]
    /\ UNCHANGED <<HOSTS_FILE, same_fs, docker, DOMAIN_BASE, UPDATE_LOCK, argv,
                   thread, temp_file, stdout, events_proc, counts, calls>>

\* gather returns when both tasks have ended; a task that was cancelled has
\* caught CancelledError and returned.  It raises as soon as a task has
\* ended with an exception, which then leaves main.
MainGather ==
    /\ pc["main"] = "gather"
    /\ \/ pc["watcher"] = "crashed"
       \/ \A t \in Tasks : Ended(t)
    /\ pc' = [pc EXCEPT !["main"] =
                IF pc["watcher"] = "crashed" THEN "failing" ELSE "shutdown"]
    /\ UNCHANGED <<HOSTS_FILE, same_fs, docker, DOMAIN_BASE, UPDATE_LOCK, argv,
                   thread, temp_file, stdout, events_proc, counts, calls>>

\* asyncio.run after main has returned or raised: the tasks left are
\* cancelled, and the executor's threads are waited for
RunExits ==
    /\ pc["main"] \in {"shutdown", "failing"}
    /\ \A c \in Callers : thread[c].pc \in {"idle", "done"}
    /\ pc' = [c \in Callers |->
                IF c \in Tasks
                THEN (IF Ended(c) THEN pc[c] ELSE "cancelled")
                ELSE IF pc["main"] = "shutdown" THEN "exit0" ELSE "exit1"]
    /\ UPDATE_LOCK' = CancelledLock(Tasks)
    /\ UNCHANGED <<HOSTS_FILE, same_fs, docker, DOMAIN_BASE, argv, thread,
                   temp_file, stdout, events_proc, counts, calls>>

\* ---- periodic_update
\* asyncio.sleep(interval_seconds) is over
TickerTick ==
    /\ pc["ticker"] = "sleep"
    /\ counts.ticks < MaxTicks
    /\ counts' = [counts EXCEPT !.ticks = @ + 1]
    /\ Request("ticker")
    /\ UNCHANGED <<HOSTS_FILE, same_fs, docker, DOMAIN_BASE, argv, stdout,
                   events_proc, calls>>

\* ---- monitor_docker_events
\* asyncio.create_subprocess_exec("docker", "events", ...)
WatcherSpawn ==
    /\ pc["watcher"] = "spawn"
    /\ \E started \in BOOLEAN :
        /\ pc' = [pc EXCEPT !["watcher"] =
                    IF started THEN "reading" ELSE "finished"]
        /\ events_proc' = IF started THEN "running" ELSE events_proc
    /\ UNCHANGED <<HOSTS_FILE, same_fs, docker, DOMAIN_BASE, UPDATE_LOCK, argv,
                   thread, temp_file, stdout, counts, calls>>

\* a watcher that ends at a line json.loads rejects
WatcherLine_ending_on_garbage ==
    /\ pc["watcher"] = "reading"
    /\ stdout # <<>>
    /\ stdout' = Tail(stdout)
    /\ IF Head(stdout) = "event"
       THEN Request("watcher")
       ELSE /\ pc' = [pc EXCEPT !["watcher"] = "finished"]
            /\ UNCHANGED <<UPDATE_LOCK, thread, temp_file>>
    /\ UNCHANGED <<HOSTS_FILE, same_fs, docker, DOMAIN_BASE, argv,
                   events_proc, counts, calls>>

\* one line of process.stdout: an event that decodes, or a line json.loads
\* rejects, which is logged and skipped
WatcherLine ==
    /\ pc["watcher"] = "reading"
    /\ stdout # <<>>
    /\ stdout' = Tail(stdout)
    /\ IF Head(stdout) = "event"
       THEN Request("watcher")
       ELSE UNCHANGED <<UPDATE_LOCK, thread, temp_file, pc>>
    /\ UNCHANGED <<HOSTS_FILE, same_fs, docker, DOMAIN_BASE, argv,
                   events_proc, counts, calls>>

\* a watcher that opens a new subscription at the end of the stream
WatcherEof_subscribing_again ==
    /\ pc["watcher"] = "reading"
    /\ stdout = <<>>
    /\ events_proc = "exited"
    /\ pc' = [pc EXCEPT !["watcher"] = "spawn"]
    /\ UNCHANGED <<HOSTS_FILE, same_fs, docker, DOMAIN_BASE, UPDATE_LOCK, argv,
                   thread, temp_file, stdout, events_proc, counts, calls>>

\* end of process.stdout, then process.wait()
WatcherEof ==
    /\ pc["watcher"] = "reading"
    /\ stdout = <<>>
    /\ events_proc = "exited"
    /\ pc' = [pc EXCEPT !["watcher"] = "finished"]
    /\ UNCHANGED <<HOSTS_FILE, same_fs, docker, DOMAIN_BASE, UPDATE_LOCK, argv,
                   thread, temp_file, stdout, events_proc, counts, calls>>

\* ---- the environment
\* a container starts, stops or changes its networks; the events process
\* prints the event
DockerChange ==
    /\ Alive
    /\ counts.emitted < MaxEvents
    /\ \E containers \in Inventories \ {docker} : docker' = containers
    /\ stdout' = IF events_proc = "running"
                 THEN Append(stdout, "event") ELSE stdout
    /\ counts' = [counts EXCEPT !.emitted = @ + 1]
    /\ UNCHANGED <<HOSTS_FILE, same_fs, DOMAIN_BASE, UPDATE_LOCK, argv, pc,
                   thread, temp_file, events_proc, calls>>

\* the events process prints a line that is no JSON
DockerGarbage ==
    /\ Alive
    /\ events_proc = "running"
    /\ counts.emitted < MaxEvents
    /\ stdout' = Append(stdout, "garbage")
    /\ counts' = [counts EXCEPT !.emitted = @ + 1]
    /\ UNCHANGED <<HOSTS_FILE, same_fs, docker, DOMAIN_BASE, UPDATE_LOCK, argv,
                   pc, thread, temp_file, events_proc, calls>>

\* the events process ends (the daemon stops or restarts)
EventsExit ==
    /\ Alive
    /\ events_proc = "running"
    /\ events_proc' = "exited"
    /\ UNCHANGED <<HOSTS_FILE, same_fs, docker, DOMAIN_BASE, UPDATE_LOCK, argv,
                   pc, thread, temp_file, stdout, counts, calls>>

\* the steps of main, of the watcher, of update_hosts_file_async and its
\* thread, and of the environment
OtherSteps ==
    \/ MainStart \/ MainCheckDocker \/ MainFix \/ MainEnsure
    \/ MainInitialUpdate \/ MainSpawn \/ Signal \/ MainGather \/ RunExits
    \/ WatcherSpawn \/ WatcherLine \/ WatcherEof
    \/ WatcherTerminated
    \/ \E t \in Tasks : Granted(t)
    \/ \E c \in Callers :
        \/ Complete(c)
        \/ ThreadRead(c) \/ ThreadLs(c) \/ ThreadInspect(c)
        \/ ThreadTempfile(c) \/ ThreadMv(c) \/ ThreadMvCopy(c)
    \/ DockerChange \/ DockerGarbage \/ EventsExit

Next == TickerTick \/ OtherSteps

Spec == Init /\ [][Next]_vars

\* ------------------------------------------------- the process started on a
\* file with one managed section: the file keeps its size from pass to pass,
\* so the ticker is followed for as long as it runs
InitRun ==
    /\ HOSTS_FILE = [exists |-> TRUE, text |-> ExampleFile]
    /\ same_fs \in BOOLEAN
    /\ docker = <<web>>
    /\ DOMAIN_BASE = DefaultDomain
    /\ UPDATE_LOCK = [locked |-> FALSE, waiters |-> <<>>]
    /\ argv \in Argvs
    /\ pc = [c \in Callers |-> IF c = "main" THEN "start" ELSE "none"]
    /\ thread = [c \in Callers |-> IdleThread]
    /\ temp_file = [c \in Callers |-> NoFile]
    /\ stdout = <<>>
    /\ events_proc = "none"
    /\ counts = [ticks |-> 0, emitted |-> 0]
    /\ calls = <<>>

\* asyncio.sleep(interval_seconds) is over, any number of times; the ticks
\* are counted up to MaxTicks
TickerTickOn ==
    /\ pc["ticker"] = "sleep"
    /\ counts' = [counts EXCEPT !.ticks = IF @ < MaxTicks THEN @ + 1 ELSE @]
    /\ Request("ticker")
    /\ UNCHANGED <<HOSTS_FILE, same_fs, docker, DOMAIN_BASE, argv, stdout,
                   events_proc, calls>>

NextRun == TickerTickOn \/ OtherSteps

SpecRun == InitRun /\ [][NextRun]_vars

\* the event loop runs every coroutine that can go on, a blocking call in
\* the executor returns (the subprocess calls have timeouts), and a sleep
\* ends; the environment and the signal are under no obligation
LoopSteps ==
    \/ MainStart \/ MainCheckDocker \/ MainFix \/ MainEnsure
    \/ MainInitialUpdate \/ MainSpawn \/ MainGather \/ RunExits
    \/ WatcherSpawn \/ WatcherLine \/ WatcherEof \/ WatcherTerminated
    \/ \E t \in Tasks : Granted(t)
    \/ \E c \in Callers : Complete(c)

ThreadSteps ==
    \E c \in Callers :
        \/ ThreadRead(c) \/ ThreadLs(c) \/ ThreadInspect(c)
        \/ ThreadTempfile(c) \/ ThreadMv(c) \/ ThreadMvCopy(c)

FairSpecRun ==
    /\ SpecRun
    /\ WF_vars(LoopSteps)
    /\ WF_vars(ThreadSteps)
    /\ WF_vars(TickerTickOn)

\* ------------------------------------------------- properties of the calls
\* the file the k-th direct call left behind
After(k) == IF k < Len(calls) THEN calls[k + 1].before ELSE HOSTS_FILE

MarkerLines(lines, marker) ==
    {i \in 1..Len(lines) : strip(lines[i]) = <<marker>>}

\* one begin-marker line before one end-marker line
OneSection(lines) ==
    /\ Cardinality(MarkerLines(lines, BEGIN_BLOCK)) = 1
    /\ Cardinality(MarkerLines(lines, END_BLOCK)) = 1
    /\ \A b \in MarkerLines(lines, BEGIN_BLOCK) :
        \A e \in MarkerLines(lines, END_BLOCK) : b < e

IsPrefix(p, t) == Len(p) <= Len(t) /\ SubSeq(t, 1, Len(p)) = p

\* C4: a successful update_hosts_file on a file with one begin-marker line
\* before one end-marker line keeps the lines up to and including the begin
\* marker and the lines from the end marker on, in order; the new file is
\* those two parts with one line per entry between them.
C4_FrameKept ==
    \A k \in 1..Len(calls) :
        LET old == splitlines(calls[k].before.text)
            new == splitlines(After(k).text)
            b == CHOOSE i \in MarkerLines(old, BEGIN_BLOCK) : TRUE
            e == CHOOSE i \in MarkerLines(old, END_BLOCK) : TRUE
            rest == Len(old) - e
        IN  (calls[k].op = "update" /\ calls[k].ok /\ OneSection(old)) =>
                /\ Len(new) = b + Len(calls[k].docker_entries) + rest + 1
                /\ SubSeq(new, 1, b) = SubSeq(old, 1, b)
                /\ SubSeq(new, Len(new) - rest, Len(new))
                        = SubSeq(old, e, Len(old))

\* a successful update replaced a body by entries, in a file with content
\* before the begin marker and after the end marker
C4_Witness ==
    /\ Len(calls) = 1
    /\ calls[1].op = "update" /\ calls[1].ok
    /\ calls[1].before.text = ExampleFile
    /\ Len(calls[1].docker_entries) = 2
    /\ HOSTS_FILE # calls[1].before

\* the lines strictly between the first begin-marker line and the end-marker
\* line that follows it; one line "no section" when there is no such pair
Body(text) ==
    LET lines == splitlines(text)
        b == FirstFrom(lines, BEGIN_BLOCK, 1)
        e == IF b = 0 THEN 0 ELSE FirstFrom(lines, END_BLOCK, b + 1)
    IN  IF b = 0 \/ e = 0 THEN << <<"no section">> >>
        ELSE SubSeq(lines, b + 1, e - 1)

HasMarkerLine(text, marker) == MarkerLines(splitlines(text), marker) # {}

\* C6: update_hosts_file on a file without a begin-marker line or without an
\* end-marker line returns False and leaves the file as it was.
C6_MissingMarkersNoChange ==
    \A k \in 1..Len(calls) :
        (/\ calls[k].op = "update"
         /\ \/ ~HasMarkerLine(calls[k].before.text, BEGIN_BLOCK)
            \/ ~HasMarkerLine(calls[k].before.text, END_BLOCK)) =>
            ~calls[k].ok /\ After(k) = calls[k].before

\* update_hosts_file was called on a file that has an end-marker line and a
\* line that contains the begin marker without being a marker line
C6_Witness ==
    /\ Len(calls) = 1
    /\ calls[1].op = "update"
    /\ calls[1].before.exists
    /\ HasMarkerLine(calls[1].before.text, END_BLOCK)
    /\ ~HasMarkerLine(calls[1].before.text, BEGIN_BLOCK)
    /\ Contains(calls[1].before.text, BEGIN_BLOCK)
    /\ ~calls[1].ok

\* C9: a call of ensure_managed_section_exists that follows a successful one
\* leaves the file as it found it, and so does a first call on a file that
\* contains both markers.
C9_EnsureIdempotent ==
    \A k \in 1..Len(calls) :
        (calls[k].op = "ensure" /\ calls[k].ok) =>
            /\ (\E j \in 1..(k - 1) : calls[j].op = "ensure" /\ calls[j].ok)
                    => After(k) = calls[k].before
            /\ (/\ Contains(calls[k].before.text, BEGIN_BLOCK)
                /\ Contains(calls[k].before.text, END_BLOCK))
                    => After(k) = calls[k].before

\* the first call appended the markers and the second call succeeded
C9_Witness ==
    /\ Len(calls) = 2
    /\ calls[1].op = "ensure" /\ calls[1].ok
    /\ calls[2].op = "ensure" /\ calls[2].ok
    /\ calls[2].before # calls[1].before

EmptySection == <<BEGIN_BLOCK, NL, END_BLOCK, NL>>

\* C10 as stated: what a successful ensure_managed_section_exists adds to the
\* file is nothing or an empty managed section, after the old content.
C10_AddsOnlySection ==
    \A k \in 1..Len(calls) :
        (calls[k].op = "ensure" /\ calls[k].ok) =>
            \/ After(k).text = calls[k].before.text
            \/ After(k).text = calls[k].before.text \o EmptySection

\* C10: the old content is a prefix of the new content, and what a successful
\* ensure_managed_section_exists adds is nothing or a line break followed by
\* an empty managed section, whose two marker lines are then the last two
\* lines of the file.
C10_AddsBreakAndSection ==
    \A k \in 1..Len(calls) :
        LET old == calls[k].before.text
            new == After(k).text
            lines == splitlines(new)
            n == Len(lines)
        IN  (calls[k].op = "ensure" /\ calls[k].ok) =>
                /\ IsPrefix(old, new)
                /\ \/ new = old
                   \/ /\ new = old \o <<NL>> \o EmptySection
                      /\ lines[n - 1] = <<BEGIN_BLOCK, NL>>
                      /\ lines[n] = <<END_BLOCK, NL>>

\* the markers were added to a file whose last line had no line break
C10_Witness ==
    /\ Len(calls) = 1
    /\ calls[1].op = "ensure" /\ calls[1].ok
    /\ calls[1].before.text = <<"x", NL, "x">>
    /\ HOSTS_FILE.text # calls[1].before.text


\* C21: after ensure_managed_section_exists returned True, the file that the
\* following update_hosts_file reads has a line equal to the begin marker and
\* a line equal to the end marker once stripped, so that the writer's two
\* searches succeed.
C21_EnsureThenMarkersFound ==
    \A k \in 1..(Len(calls) - 1) :
        (calls[k].op = "ensure" /\ calls[k].ok /\ calls[k + 1].op = "update")
            => /\ HasMarkerLine(calls[k + 1].before.text, BEGIN_BLOCK)
               /\ HasMarkerLine(calls[k + 1].before.text, END_BLOCK)

\* ------------------------------------------------- properties of the passes
\* the first begin-marker line comes before the first end-marker line
MarkersInOrder(text) ==
    LET lines == splitlines(text)
    IN  /\ FirstLine(lines, BEGIN_BLOCK) # 0
        /\ FirstLine(lines, BEGIN_BLOCK) < FirstLine(lines, END_BLOCK)

\* C22: after ensure_managed_section_exists returned True, two successful
\* passes of update_hosts_file in a row that got the same entries leave the
\* same file: the second pass changes nothing.
C22_PassIdempotent ==
    \A k \in 2..(Len(calls) - 1) :
        (/\ calls[1].op = "ensure" /\ calls[1].ok
         /\ calls[k].op = "update" /\ calls[k].ok
         /\ calls[k + 1].op = "update" /\ calls[k + 1].ok
         /\ calls[k].docker_entries = calls[k + 1].docker_entries)
            => After(k + 1) = After(k)

\* the same for the files whose first begin-marker line precedes their first
\* end-marker line
C22_OnOrderedMarkers ==
    \A k \in 2..(Len(calls) - 1) :
        (/\ calls[1].op = "ensure" /\ calls[1].ok
         /\ MarkersInOrder(calls[2].before.text)
         /\ calls[k].op = "update" /\ calls[k].ok
         /\ calls[k + 1].op = "update" /\ calls[k + 1].ok
         /\ calls[k].docker_entries = calls[k + 1].docker_entries)
            => After(k + 1) = After(k)

\* ------------------------------------------------- properties of the process
\* the runs of update_hosts_file in progress
Running == {c \in Callers : thread[c].pc \notin {"idle", "done"}}

\* C1: at most one run of update_hosts_file is in progress, whatever the
\* order of the initial update, ticks, events and the termination signal.
C1_OnePipeline == Cardinality(Running) <= 1

\* a run is about to replace the file while the other task waits for the lock
C1_Witness ==
    /\ thread["ticker"].pc = "mv"
    /\ UPDATE_LOCK.waiters = <<"watcher">>

\* C2: a trigger that arrives while a run is in progress is dropped: no task
\* is ever waiting for the lock to run update_hosts_file later.
C2_TriggerDropped == \A t \in Tasks : pc[t] # "lockwait"

\* C3: a pass of the ticker or the watcher in which a step failed leaves the
\* target file as it was when the pass began.
C3_FailedPassNoChange ==
    \A t \in Tasks :
        (thread[t].pc = "done" /\ thread[t].failed # "none") =>
            HOSTS_FILE = thread[t].before

\* C5: when a run of update_hosts_file in which every step succeeded has
\* returned True, the lines strictly between the begin and end markers of the
\* target file are exactly the entries of that run, one per line and in order
\* (none when there are no entries).
C5_BodyIsEntries ==
    \A c \in Callers :
        (thread[c].pc = "done" /\ thread[c].result
                /\ thread[c].failed = "none") =>
            Body(HOSTS_FILE.text) = entry_lines(thread[c].docker_entries)

\* C7: whenever the target file is read, it holds the complete content of
\* before the pass or the complete new content; until the replacement is
\* done, and after a pass that failed, it holds the old content.
C7_OldOrNewContent ==
    \A c \in Callers :
        LET old == thread[c].before
            new == [exists |-> TRUE, text |-> NewText(c)]
        IN  CASE thread[c].pc \in {"read", "ls", "inspect", "tempfile"} ->
                    HOSTS_FILE = old
              [] thread[c].pc \in {"mv", "mv_copy"} -> HOSTS_FILE \in {old, new}
              [] thread[c].pc = "done" ->
                    HOSTS_FILE = IF thread[c].result THEN new ELSE old
              [] OTHER -> TRUE

\* ensure_managed_section_exists has returned True
Initialized ==
    pc["main"] \in {"initial", "executing", "spawn", "gather", "shutdown",
                    "failing", "exit0"}

\* C8: once ensure_managed_section_exists has returned True the target file
\* has exactly one begin-marker line and exactly one end-marker line, the
\* begin marker first.
C8_OneSectionAlways ==
    Initialized =>
        HOSTS_FILE.exists /\ OneSection(splitlines(HOSTS_FILE.text))


\* ------------------------------------------------- properties of the entries
\* the result of the call of get_docker_container_hosts
Returned == calls # <<>> /\ calls[1].op = "hosts" /\ calls[1].ok

\* the elements of seq whose index is in S, in order
Kept(seq, S) ==
    LET F[i \in 0..Len(seq)] ==
            IF i = 0 THEN <<>>
            ELSE IF i \in S THEN Append(F[i - 1], seq[i]) ELSE F[i - 1]
    IN  F[Len(seq)]

\* the non-empty elements of seq, each at its first occurrence
FirstOccurrences(seq) ==
    Kept(seq, {i \in 1..Len(seq) :
                /\ seq[i] # <<>>
                /\ \A j \in 1..(i - 1) : seq[j] # seq[i]})

\* the attachments of the inventory in iteration order: containers in the
\* order returned, then the networks of each in the order returned
Attachments(containers) ==
    Flatten([i \in 1..Len(containers) |->
        [j \in 1..Len(containers[i].Networks) |->
            [name |-> lstrip(containers[i].Name, {SLASH}),
             hostname |-> containers[i].Hostname,
             ip |-> containers[i].Networks[j].IPAddress,
             aliases |-> containers[i].Networks[j].Aliases]]])

\* container name, configured hostname, aliases: the candidate names
Candidates(a) == FirstOccurrences(<<a.name, a.hostname>> \o a.aliases)

\* a candidate cut at its first "."
Short(name) ==
    LET dots == {i \in 1..Len(name) : name[i] = DOT}
    IN  IF dots = {} THEN name
        ELSE SubSeq(name, 1, (CHOOSE i \in dots : \A j \in dots : i <= j) - 1)

\* every short form followed by <short>.<domain base>, without repeats
ExpectedNames(a) ==
    LET cands == Candidates(a)
        shorts == FirstOccurrences([i \in 1..Len(cands) |-> Short(cands[i])])
    IN  [k \in 1..(2 * Len(shorts)) |->
            IF k % 2 = 1 THEN shorts[(k + 1) \div 2]
            ELSE shorts[k \div 2] \o <<DOT>> \o DOMAIN_BASE]

\* the fields of an entry line: the text between the blanks
RECURSIVE FieldsFrom(_, _, _)
FieldsFrom(entry, i, cur) ==
    IF i > Len(entry) THEN <<cur>>
    ELSE IF entry[i] = SP THEN <<cur>> \o FieldsFrom(entry, i + 1, <<>>)
    ELSE FieldsFrom(entry, i + 1, Append(cur, entry[i]))

EntryIP(entry) == FieldsFrom(entry, 1, <<>>)[1][1]
EntryNames(entry) == Tail(FieldsFrom(entry, 1, <<>>))

\* C11: the returned entries have pairwise different IP addresses, and no
\* name occurs twice in one entry.
C11_UniqueEntries ==
    Returned =>
        LET es == calls[1].docker_entries
        IN  /\ \A i, j \in 1..Len(es) :
                    i # j => EntryIP(es[i]) # EntryIP(es[j])
            /\ \A i \in 1..Len(es) :
                    LET names == EntryNames(es[i])
                    IN  \A a, b \in 1..Len(names) :
                            a # b => names[a] # names[b]

\* the inventory had two attachments with one IP address, and an attachment
\* with two candidates of one short form
C11_Witness ==
    /\ Returned
    /\ LET as == Attachments(docker)
       IN  /\ \E i, j \in 1..Len(as) :
                /\ i < j /\ as[i].ip # "" /\ as[i].ip = as[j].ip
                /\ Candidates(as[i]) # <<>> /\ Candidates(as[j]) # <<>>
           /\ \E i \in 1..Len(as) :
                /\ as[i].ip # ""
                /\ 2 * Len(Candidates(as[i])) > Len(ExpectedNames(as[i]))
                /\ Len(ExpectedNames(as[i])) > 0

Range(seq) == {seq[i] : i \in 1..Len(seq)}

\* C12 as stated: every returned entry has a non-empty IP address and its
\* names come only from the first attachment, in iteration order, that
\* carries this IP address.
C12_FirstClaimWins ==
    Returned =>
        LET as == Attachments(docker)
            es == calls[1].docker_entries
        IN  \A k \in 1..Len(es) :
                /\ EntryIP(es[k]) # ""
                /\ \E i \in 1..Len(as) :
                    /\ as[i].ip = EntryIP(es[k])
                    /\ \A j \in 1..(i - 1) : as[j].ip # as[i].ip
                    /\ Range(EntryNames(es[k])) \subseteq
                            Range(ExpectedNames(as[i]))

\* the attachments an entry is built from: those with an IP address and a
\* candidate name that no earlier such attachment shares the IP address with
Winners(as) ==
    {i \in 1..Len(as) :
        /\ as[i].ip # "" /\ Candidates(as[i]) # <<>>
        /\ \A j \in 1..(i - 1) :
            ~(as[j].ip = as[i].ip /\ Candidates(as[j]) # <<>>)}

\* C12: the returned entries are, in iteration order, one entry for each
\* attachment that is the first with its non-empty IP address among the
\* attachments that have a candidate name; the names of the entry come only
\* from that attachment; the other attachments give no entry and no name.
C12_FirstNamedClaimWins ==
    Returned =>
        LET as == Attachments(docker)
            ws == Kept(as, Winners(as))
            es == calls[1].docker_entries
        IN  /\ Len(es) = Len(ws)
            /\ \A k \in 1..Len(es) :
                /\ EntryIP(es[k]) = ws[k].ip
                /\ EntryNames(es[k]) # <<>>
                /\ Range(EntryNames(es[k])) \subseteq
                        Range(ExpectedNames(ws[k]))

\* an attachment without candidate names came first with an IP address that
\* two later attachments with different names carry
C12_Witness ==
    /\ Returned
    /\ LET as == Attachments(docker)
       IN  \E i, j, k \in 1..Len(as) :
            /\ i < j /\ j < k
            /\ as[i].ip # "" /\ as[i].ip = as[j].ip /\ as[j].ip = as[k].ip
            /\ Candidates(as[i]) = <<>>
            /\ Candidates(as[j]) # <<>> /\ Candidates(as[k]) # <<>>
            /\ ExpectedNames(as[j]) # ExpectedNames(as[k])

\* C13: the names of every returned entry are those derived from the
\* attachment it was built from: the container name (if non-empty), the
\* hostname if it is non-empty and differs, then each non-empty alias not
\* yet a candidate; each cut at its first "."; every short form at its first
\* appearance, followed by <short>.<domain base>.
C13_NamesDerived ==
    Returned =>
        LET as == Attachments(docker)
            ws == Kept(as, Winners(as))
            es == calls[1].docker_entries
        IN  \A k \in 1..Len(es) :
                k <= Len(ws) => EntryNames(es[k]) = ExpectedNames(ws[k])

\* C13, the example: test-nginx with domain base base.domain
C13_Example ==
    (Returned /\ docker = <<test_nginx>> /\ DOMAIN_BASE = DefaultDomain) =>
        calls[1].docker_entries =
            << <<"10.0.0.7", SP, "test-nginx", SP,
                 "test-nginx", DOT, "base", DOT, "domain">> >>

C13_Names == C13_NamesDerived /\ C13_Example

\* an entry was built from a container name, a hostname with a domain and
\* aliases of which one is empty and two have the short form of the hostname
C13_Witness ==
    /\ Returned
    /\ \E k \in 1..Len(calls[1].docker_entries) :
        EntryNames(calls[1].docker_entries[k]) =
            << <<"web">>, <<"web", DOT>> \o DOMAIN_BASE,
               <<"db">>, <<"db", DOT>> \o DOMAIN_BASE >>
    /\ \E i \in 1..Len(docker) :
        /\ docker[i].Hostname = <<"db", DOT, "lan">>
        /\ \E j \in 1..Len(docker[i].Networks) :
            Len(docker[i].Networks[j].Aliases) = 3


\* ------------------------------------------------- properties of the interval
Parsed == calls # <<>> /\ calls[1].op = "parse"

DecimalDigits == {"0", "1", "2", "3", "4", "5", "6", "7", "8", "9"}
Letters == {"a", "b", "c", "x", "s", "m", "h", "d", "S"}

RECURSIVE Power10(_)
Power10(k) == IF k = 0 THEN 1 ELSE 10 * Power10(k - 1)

RECURSIVE SumTo(_, _)
SumTo(f, n) == IF n = 0 THEN 0 ELSE f[n] + SumTo(f, n - 1)

\* the number a string of decimal digits denotes
Decimal(text) ==
    LET value == [ch \in DecimalDigits |->
                    CASE ch = "0" -> 0 [] ch = "1" -> 1 [] ch = "2" -> 2
                      [] ch = "3" -> 3 [] ch = "4" -> 4 [] ch = "5" -> 5
                      [] ch = "6" -> 6 [] ch = "7" -> 7 [] ch = "8" -> 8
                      [] ch = "9" -> 9]
        n == Len(text)
    IN  SumTo([i \in 1..n |-> value[text[i]] * Power10(n - i)], n)

AllDigits(text) == text # <<>> /\ \A i \in 1..Len(text) : text[i] \in DecimalDigits

UnitSeconds(unit) ==
    CASE unit = "s" -> 1 [] unit = "m" -> 60 [] unit = "h" -> 3600
      [] unit = "d" -> 86400

\* C14: a positive integer in decimal digits followed by s, m, h or d gives
\* that many units in seconds (30s 30, 5m 300, 1h 3600, 1d 86400); the empty
\* string, a unit other than s, m, h, d, a value without a digit or with a
\* letter in it, and a value of zero or below are rejected.
C14_ParseInterval ==
    Parsed =>
        LET text == argv.interval
            n == Len(text)
            value == SubSeq(text, 1, n - 1)
            unit == text[n]
            r == calls[1]
        IN  /\ (/\ n >= 2 /\ AllDigits(value) /\ Decimal(value) > 0
                /\ unit \in {"s", "m", "h", "d"})
                    => r.ok /\ r.seconds = Decimal(value) * UnitSeconds(unit)
            /\ (\/ n = 0
                \/ n > 0 /\ unit \notin {"s", "m", "h", "d", "S"}
                \/ n > 0 /\ \A i \in 1..(n - 1) : text[i] \notin DecimalDigits
                \/ n > 0 /\ \E i \in 1..(n - 1) : text[i] \in Letters
                \/ n > 0 /\ AllDigits(value) /\ Decimal(value) = 0
                \/ n > 1 /\ value[1] = "-" /\ AllDigits(Tail(value)))
                    => ~r.ok
            /\ text = <<"3", "0", "s">> => r.ok /\ r.seconds = 30
            /\ text = <<"5", "m">> => r.ok /\ r.seconds = 300
            /\ text = <<"1", "h">> => r.ok /\ r.seconds = 3600
            /\ text = <<"1", "d">> => r.ok /\ r.seconds = 86400
            /\ text \in {<<"0", "s">>, <<"a", "b", "c">>, <<"5", "x">>, <<>>}
                    => ~r.ok

\* an interval of two digits and a unit was parsed
C14_Witness ==
    /\ Parsed
    /\ argv.interval = <<"1", "5", "h">>
    /\ calls[1].ok /\ calls[1].seconds = 54000


\* ------------------------------------------------- properties of the run
InLoop(t) ==
    CASE t = "ticker" -> pc[t] \in {"sleep", "lockwait", "executing"}
      [] t = "watcher" -> pc[t] \in {"reading", "lockwait", "executing"}

\* C15: a run of update_hosts_file that has started ends, the lock that is
\* held is released, and a task whose run has ended, failed or not, is back
\* in its loop unless it was cancelled.
C15_PassEnds ==
    /\ \A c \in Callers :
        (thread[c].pc \notin {"idle", "done"})
            ~> (thread[c].pc \in {"idle", "done"})
    /\ UPDATE_LOCK.locked ~> ~UPDATE_LOCK.locked
    /\ [][\A t \in Tasks :
            (pc[t] = "executing" /\ thread[t].pc = "done"
                /\ pc'[t] # "executing")
            => (UPDATE_LOCK'.locked = FALSE
                /\ pc'[t] \in {AfterUpdate(t), "cancelled", "terminating"}
                /\ (pc'[t] = AfterUpdate(t) => InLoop(t)'))]_vars

\* the ticker's run has failed while the watcher waits for the lock
C15_Witness ==
    /\ pc["ticker"] = "executing"
    /\ thread["ticker"].pc = "done"
    /\ ~thread["ticker"].result
    /\ UPDATE_LOCK.waiters = <<"watcher">>

\* C16: the watcher leaves the reading of a line of the events process with
\* one request for update_hosts_file (a run started, or one place in the
\* queue of the lock) when the line is an event, and with no request and no
\* change, ready for the next line, when json.loads rejects the line.
C16_OneRequestPerEvent ==
    [][Len(stdout') < Len(stdout) =>
        /\ pc["watcher"] = "reading"
        /\ stdout' = Tail(stdout)
        /\ IF Head(stdout) = "event"
           THEN \/ /\ pc'["watcher"] = "executing"
                   /\ thread'["watcher"].pc = "read"
                   /\ UPDATE_LOCK'.waiters = UPDATE_LOCK.waiters
                \/ /\ pc'["watcher"] = "lockwait"
                   /\ UPDATE_LOCK'.waiters
                        = Append(UPDATE_LOCK.waiters, "watcher")
                   /\ thread' = thread
           ELSE /\ pc'["watcher"] = "reading"
                /\ UPDATE_LOCK' = UPDATE_LOCK
                /\ thread' = thread
                /\ HOSTS_FILE' = HOSTS_FILE]_vars

\* the watcher is about to read a malformed line that an event follows
C16_Witness ==
    /\ pc["watcher"] = "reading"
    /\ stdout = <<"garbage", "event">>

\* the step of main that comes before each of its steps
MainBefore ==
    [check_docker |-> "start", fix |-> "check_docker", ensure |-> "fix",
     initial |-> "ensure", executing |-> "initial", spawn |-> "executing",
     gather |-> "spawn"]

\* C17: main reaches the initial update only through the parsing of the
\* interval, the docker check and ensure_managed_section_exists, each of
\* which succeeded; it runs update_hosts_file once, and to its end, before
\* the two tasks exist; the ticker starts asleep and requests an update only
\* when a sleep is over.
C17_StartupOrder ==
    /\ [][(pc'["main"] # pc["main"] /\ pc'["main"] \in DOMAIN MainBefore)
            => pc["main"] = MainBefore[pc'["main"]]]_vars
    /\ [](pc["main"] \in DOMAIN MainBefore
            => parse_time_interval(argv.interval).ok)
    /\ [](pc["main"] \in {"initial", "executing"}
            => (HOSTS_FILE.exists \/ thread["main"].pc \in {"mv_copy", "done"}))
    /\ [][(thread'["main"].pc = "read" /\ thread["main"].pc # "read")
            => (pc["main"] = "initial" /\ thread["main"].pc = "idle")]_vars
    /\ [](\A t \in Tasks : pc[t] # "none" =>
            /\ pc["main"] \notin {"start", "check_docker", "fix", "ensure",
                                  "initial", "executing", "spawn"}
            /\ thread["main"].pc = "idle")
    /\ [][pc["ticker"] = "none" => pc'["ticker"] \in {"none", "sleep"}]_vars
    /\ [][(pc'["ticker"] \in {"executing", "lockwait"}
                /\ pc["ticker"] \notin {"executing", "lockwait"})
            => pc["ticker"] = "sleep"]_vars

\* the tasks have just been created, after an initial update that replaced
\* the body of the managed section
C17_Witness ==
    /\ pc = [main |-> "gather", ticker |-> "sleep", watcher |-> "spawn"]
    /\ HOSTS_FILE.exists
    /\ Body(HOSTS_FILE.text) = entry_lines(host_entries_of(<<web>>))
    /\ counts.ticks = 0

\* the signal handler has run: nothing else ends the ticker
Signalled == pc["ticker"] = "cancelled"

\* C18: once the signal handler has run no run of update_hosts_file starts,
\* no task sleeps, reads, or waits for or holds the lock; a run in progress
\* goes on in its thread; main gets past gather only when both tasks have
\* ended, the ticker by cancellation.
C18_NoStartAfterSignal ==
    /\ [][Signalled =>
            \A c \in Callers :
                ~(thread'[c].pc = "read" /\ thread[c].pc # "read")]_vars
    /\ [](Signalled =>
            /\ UPDATE_LOCK.waiters = <<>>
            /\ pc["watcher"] \in {"terminating", "cancelled", "crashed",
                                  "finished"})
    /\ []((pc["main"] \in {"shutdown", "failing", "exit0"}
                \/ (pc["main"] = "exit1" /\ pc["ticker"] # "none"))
            => (Signalled /\ \A t \in Tasks : Ended(t)))

\* the signal came while the ticker's run was about to replace the file and
\* the run has gone on: the watcher has ended, main waits for the thread
C18_Witness ==
    /\ Signalled
    /\ thread["ticker"].pc = "done" /\ thread["ticker"].result
    /\ pc["watcher"] = "cancelled"
    /\ pc["main"] = "shutdown"

\* no step of a run has failed
NoFailure == \A c \in Callers : thread[c].failed = "none"

\* the managed section holds the entries of the running containers
Consistent ==
    /\ HOSTS_FILE.exists
    /\ Body(HOSTS_FILE.text) = entry_lines(host_entries_of(docker))

\* C19: when the process has come to run its two tasks, no signal arrives
\* and from some point on no step of a run fails, then from some point on
\* the managed section holds the entries of the running containers (which
\* change MaxEvents times at most) and keeps holding them.
C19_EventuallyConsistent ==
    (<>(pc["main"] = "gather") /\ []~Signalled /\ <>[]NoFailure)
        => <>[]Consistent

\* the same with /tmp on the filesystem of the target file, where mv renames
C19_OnOneFilesystem ==
    (same_fs /\ <>(pc["main"] = "gather") /\ []~Signalled /\ <>[]NoFailure)
        => <>[]Consistent

\* C20: the events process is created only when the watcher starts; at the
\* end of the stream, or when the process cannot be created, the watcher
\* ends and stays ended; main stays in gather and the ticker in its loop for
\* as long as no signal arrives, and without a signal the ticker runs
\* update_hosts_file again and again.
C20_TickerOutlivesWatcher ==
    /\ [][pc'["watcher"] = "spawn" => pc["watcher"] \in {"none", "spawn"}]_vars
    /\ [][(pc["watcher"] = "reading"
                /\ pc'["watcher"] \notin {"reading", "executing", "lockwait",
                                          "terminating", "cancelled"})
            => (pc'["watcher"] = "finished"
                /\ events_proc = "exited" /\ events_proc' = "exited")]_vars
    /\ [][pc["watcher"] = "finished"
            => (pc'["watcher"] = "finished" /\ events_proc' = events_proc)]_vars
    /\ []((pc["watcher"] = "finished" /\ ~Signalled)
            => (pc["main"] = "gather" /\ InLoop("ticker")))
    /\ ([]~Signalled) =>
            [](pc["watcher"] = "finished"
                => []<>(pc["ticker"] = "executing"))

\* the stream has ended, the watcher has ended, and the ticker runs a pass
C20_Witness ==
    /\ pc["watcher"] = "finished"
    /\ events_proc = "exited"
    /\ pc["ticker"] = "executing"
    /\ thread["ticker"].pc = "mv"
    /\ pc["main"] = "gather"

====
